---- MODULE Spec2Model ----
(***************************************************************************)
(* Model of the redis backend of the icc service (internal/redis/redis.go):*)
(* the icc stream with its single reader (SendICC / ReceiveICC and the     *)
(* background worker every ReceiveICC call starts), and the applause       *)
(* sorted set (SendApplause / ReceiveApplause / DeleteOldApplause).        *)
(***************************************************************************)
EXTENDS Integers, Sequences, FiniteSets, TLC

\* ---------------------------------------------------------------- bounds
MaxCalls == 2       \* ReceiveICC calls made by the single reader
MaxStream == 3      \* entries the icc stream may hold
MaxBacklog == 1     \* entries already in the stream when New() is called
Payloads == {"a", "b"}
MaxUser == 2        \* user ids 1..MaxUser send applause
IntBits == 3        \* width of the modelled int64: times are MinInt..MaxInt

\* ------------------------------------------------------- program constants
MaxActive == 2      \* redis.Pool.MaxActive (100), scaled to the calls modelled

\* ------------------------------------------------------ stream identifiers
\* Stream ids are modelled by the position of the entry in the stream
\* (1, 2, ...); 0 is the id "0" that precedes every entry.
EmptyID == -1       \* the Go string ""
Dollar == -2        \* the redis id "$": the tail at the time XREAD is served
NoData == "nil"

Calls == 1..MaxCalls

\* int64, scaled to IntBits bits
MinInt == -(2 ^ (IntBits - 1))
MaxInt == 2 ^ (IntBits - 1) - 1
Int64 == MinInt..MaxInt
Wrap(x) == ((x - MinInt) % (2 ^ IntBits)) + MinInt

Users == 1..MaxUser
NoTime == MinInt - 1    \* lastSend of a user who never sent applause

VARIABLES
    stream,        \* the redis stream "icc": sequence of payloads
    created,       \* length of the stream when the Redis value was created
    active,        \* connections handed out by the pool and not yet closed
    lastICCID,     \* Redis.lastICCID
    callerpc,      \* position of the reader: "idle" or "select"
    id,            \* local variable id of the running ReceiveICC call
    ctxDone,       \* ctx.Done() of the running call is closed
    preCancelled,  \* the running / last call was invoked with ctx cancelled
    ret,           \* what the last ReceiveICC call returned
    ncalls,        \* number of ReceiveICC calls started
    worker,        \* worker[c]: the goroutine started by call c
    sending,       \* the SendICC call under way: where it stands, its
                   \* message, what it returns, and the ReceiveICC call
                   \* that was parked when it was called (0: none)
    prevRead,      \* the last ReceiveICC call that returned was cancelled
                   \* or failed after its XREAD was issued from pos
    sentParked,    \* "parked" if a SendICC was called and returned nil
                   \* while the running call was parked, "no" if not
    subscribedAt,  \* tail of the stream when the first XREAD was served
    delivered,     \* entries returned by successful ReceiveICC calls
    disturbed,     \* some ReceiveICC call returned an error
    applause,      \* the redis sorted set "applause": entries member/score
    lastSend,      \* per user: time of the last successful SendApplause
    removed,       \* per user: the entry was deleted since that call
    misswept,      \* a DeleteOldApplause(b) did not remove exactly the
                   \* entries with a time < b
    appLast,       \* the last applause call: arguments, result, set before
    appCall,       \* the applause call under way: "conn" once it has its
                   \* connection, "reply" once the store has served it
    now,           \* the clock, in the unit of the applause times
    sweep,         \* the pruning loop: position and the cutoff it computed
    stamp,         \* per user: the time taken by a Send that is under way
    newSent,       \* entries written since the sweep computed its cutoff
    lostNew,       \* the entries of newSent the sweep deleted
    req,           \* the HTTP request a handler is serving, and its response
    waiter,        \* the call of Redis.Wait
    storeUp,       \* the store answers PING
    waitCtxDone,   \* the context handed to Wait is cancelled
    run,           \* the call of Run
    shut,          \* the shutdown goroutine Run starts
    runCtxDone,    \* the context handed to Run is cancelled
    srv            \* the http.Server of Run

iccvars == <<stream, created, active, lastICCID, callerpc, id, ctxDone,
             preCancelled, ret, ncalls, worker, sending, sentParked,
             prevRead,
             subscribedAt, delivered, disturbed>>

appvars == <<applause, lastSend, removed, misswept, appLast, appCall>>

prunevars == <<now, sweep, stamp, newSent, lostNew>>

httpvars == <<req>>

waitvars == <<waiter, storeUp, waitCtxDone>>

runvars == <<run, shut, runCtxDone, srv>>

\* What the calls on the icc stream leave alone, besides the applause set.
othervars == <<prunevars, httpvars, waitvars, runvars>>

vars == <<iccvars, appvars, prunevars, httpvars, waitvars, runvars>>

\* streamReturn{id, data, err}
StreamReturn(i, d, e) == [id |-> i, data |-> d, err |-> e]

NoWorker == [pc |-> "none", arg |-> EmptyID, pos |-> 0,
             res |-> StreamReturn(EmptyID, NoData, FALSE)]

\* No SendICC call is under way.
NoSend == [pc |-> "idle", msg |-> NoData, err |-> "none", during |-> 0]

NoRead == [kind |-> "none", pos |-> 0]

NoRet == [kind |-> "none", data |-> NoData, id |-> EmptyID]

\* stream(): turns the reply of XREAD into (id, data, err).
StreamOK(pos) == StreamReturn(pos, stream[pos], FALSE)
StreamErr(i) == StreamReturn(i, NoData, TRUE)

\* Variant: an empty cursor reads the stream from its beginning.
ReadID_FromStart(last) == IF last = EmptyID THEN 0 ELSE last

\* The id ReceiveICC hands to XREAD.
ReadID(last) == IF last = EmptyID THEN Dollar ELSE last

\* The position after which a XREAD with argument arg reads.
Resolve(arg) == IF arg = Dollar THEN Len(stream) ELSE arg

BoundedSeqs(S, n) == UNION {[1..k -> S] : k \in 0..n}

\* The HTTP gateway before any request: no identity, nothing called,
\* nothing written.
Anonymous == 0
NoOutcome == [kind |-> "none", text |-> ""]
NoRequest == [pc |-> "idle", handler |-> "none", uid |-> Anonymous,
              data |-> "", called |-> FALSE, calledUserID |-> Anonymous,
              calledData |-> "", out |-> NoOutcome, status |-> 0,
              body |-> <<>>]

\* Wait is not called yet; err is what the last PING returned, probes
\* counts the PINGs (it stays at MaxProbes once there).
NoWait == [pc |-> "idle", err |-> "none", probes |-> 0]

\* Run is not called yet.  las is what ListenAndServe returned ("closed" for
\* ErrServerClosed, "other" for any other error), cancelledServing that the
\* context was cancelled while the server was serving.
NoRun == [pc |-> "idle", messaging |-> "", testConn |-> FALSE, auth |-> "",
          served |-> FALSE, cancelledServing |-> FALSE, las |-> "none",
          ret |-> "none"]

\* The shutdown goroutine is not started yet.
NoShutdown == [pc |-> "none", err |-> FALSE]

Init ==
    /\ stream \in BoundedSeqs(Payloads, MaxBacklog)
    /\ created = Len(stream)
    /\ active = 0
    /\ lastICCID = EmptyID
    /\ callerpc = "idle"
    /\ id = EmptyID
    /\ ctxDone = FALSE
    /\ preCancelled = FALSE
    /\ ret = NoRet
    /\ ncalls = 0
    /\ worker = [c \in Calls |-> NoWorker]
    /\ sending = NoSend
    /\ sentParked = "no"
    /\ prevRead = NoRead
    /\ subscribedAt = EmptyID
    /\ delivered = <<>>
    /\ disturbed = FALSE
    /\ applause = {}
    /\ lastSend = [u \in Users |-> NoTime]
    /\ removed = [u \in Users |-> FALSE]
    /\ misswept = FALSE
    /\ appLast = [op |-> "none", user |-> 0, arg |-> 0, ok |-> TRUE,
                  res |-> 0, before |-> {}]
    /\ appCall = "idle"
    /\ now = 0
    /\ sweep = [pc |-> "idle", cutoff |-> 0]
    /\ stamp = [u \in Users |-> NoTime]
    /\ newSent = {}
    /\ lostNew = {}
    /\ req = NoRequest
    /\ waiter = NoWait
    /\ storeUp = FALSE
    /\ waitCtxDone = FALSE
    /\ run = NoRun
    /\ shut = NoShutdown
    /\ runCtxDone = FALSE
    /\ srv = "new"

\* SendICC(message) is called: conn := r.pool.Get() waits for a connection.
SendICCCall(message) ==
    /\ sending.pc = "idle"
    /\ Len(stream) < MaxStream
    /\ sending' = [pc |-> "get", msg |-> message, err |-> "none",
                   during |-> IF callerpc = "select" /\ ~ctxDone
                                THEN ncalls ELSE 0]
    /\ UNCHANGED <<appvars, othervars, prevRead, stream, created, active,
                   lastICCID, callerpc, id, ctxDone, preCancelled, ret,
                   ncalls, worker, sentParked, subscribedAt, delivered,
                   disturbed>>

\* SendICC: r.pool.Get() hands out a connection.
SendICCGet ==
    /\ sending.pc = "get"
    /\ active < MaxActive
    /\ active' = active + 1
    /\ sending' = [sending EXCEPT !.pc = "xadd"]
    /\ UNCHANGED <<appvars, othervars, prevRead, stream, created, lastICCID,
                   callerpc, id, ctxDone, preCancelled, ret, ncalls, worker,
                   sentParked, subscribedAt, delivered, disturbed>>

\* SendICC: redis serves XADD icc * content message and appends the entry,
\* or conn.Do fails and nothing is appended.
SendICCXAdd(ok) ==
    /\ sending.pc = "xadd"
    /\ stream' = IF ok THEN Append(stream, sending.msg) ELSE stream
    /\ sending' = [sending EXCEPT !.pc = "reply", !.msg = NoData,
                                  !.err = IF ok THEN "nil" ELSE "xadd"]
    /\ UNCHANGED <<appvars, othervars, prevRead, created, active, lastICCID,
                   callerpc, id, ctxDone, preCancelled, ret, ncalls, worker,
                   sentParked, subscribedAt, delivered, disturbed>>

\* A SendICC that returns nil while the ReceiveICC call that was parked when
\* it was called is still parked.
SentParked(old) ==
    IF /\ sending.err = "nil"
       /\ callerpc = "select" /\ ~ctxDone /\ sending.during = ncalls
      THEN "parked" ELSE old

\* SendICC: conn.Do has returned; the deferred conn.Close() runs and SendICC
\* returns sending.err.
SendICCReturn ==
    /\ sending.pc = "reply"
    /\ active' = active - 1
    /\ sentParked' = SentParked(sentParked)
    /\ sending' = NoSend
    /\ UNCHANGED <<appvars, othervars, prevRead, stream, created, lastICCID,
                   callerpc, id, ctxDone, preCancelled, ret, ncalls, worker,
                   subscribedAt, delivered, disturbed>>

\* ReceiveICC up to the select: computes id, makes the channel and starts the
\* worker.  cancelled: the context handed in is already done.
ReceiveICCStart(cancelled) ==
    /\ callerpc = "idle"
    /\ ncalls < MaxCalls
    /\ id' = ReadID(lastICCID)
    /\ ncalls' = ncalls + 1
    /\ worker' = [worker EXCEPT ![ncalls + 1] =
                     [NoWorker EXCEPT !.pc = "get", !.arg = ReadID(lastICCID)]]
    /\ callerpc' = "select"
    /\ ctxDone' = cancelled
    /\ preCancelled' = cancelled
    /\ ret' = NoRet
    /\ sentParked' = "no"
    /\ UNCHANGED <<appvars, othervars, prevRead, sending, stream, created,
                   active, lastICCID, subscribedAt, delivered,
                   disturbed>>

\* The context of the running call is cancelled.
Cancel ==
    /\ callerpc = "select"
    /\ ~ctxDone
    /\ ctxDone' = TRUE
    /\ UNCHANGED <<appvars, othervars, prevRead, sending, sentParked, stream,
                   created, active, lastICCID, callerpc, id, preCancelled, ret,
                   ncalls, worker, subscribedAt, delivered,
                   disturbed>>

\* worker: conn := r.pool.Get()  (Wait: true blocks while MaxActive are out)
WorkerGet(c) ==
    /\ worker[c].pc = "get"
    /\ active < MaxActive
    /\ active' = active + 1
    /\ worker' = [worker EXCEPT ![c].pc = "xread"]
    /\ UNCHANGED <<appvars, othervars, prevRead, sending, sentParked, stream,
                   created, lastICCID, callerpc, id, ctxDone, preCancelled,
                   ret, ncalls, subscribedAt, delivered, disturbed>>

\* worker: redis serves XREAD COUNT 1 BLOCK 0 STREAMS icc id; "$" becomes
\* the tail of the stream at this moment.
WorkerXRead(c) ==
    /\ worker[c].pc = "xread"
    /\ worker' = [worker EXCEPT ![c].pc = "blocked",
                                ![c].pos = Resolve(worker[c].arg)]
    /\ subscribedAt' = IF subscribedAt = EmptyID THEN Resolve(worker[c].arg)
                                                 ELSE subscribedAt
    /\ UNCHANGED <<appvars, othervars, prevRead, sending, sentParked, stream,
                   created, active, lastICCID, callerpc, id, ctxDone,
                   preCancelled, ret, ncalls, delivered, disturbed>>

\* Variant: the XREAD names another stream, no entry of icc ends it.
WorkerReply_OtherKey(c) ==
    /\ worker[c].pc = "blocked"
    /\ FALSE                       \* nothing is appended to that stream
    /\ worker' = [worker EXCEPT ![c].pc = "send",
                                ![c].res = StreamOK(worker[c].pos + 1)]
    /\ UNCHANGED <<appvars, othervars, prevRead, sending, sentParked, stream,
                   created, active, lastICCID, callerpc, id, ctxDone,
                   preCancelled, ret, ncalls, subscribedAt, delivered,
                   disturbed>>

\* worker: the blocking XREAD returns the first entry after pos.
WorkerReply(c) ==
    /\ worker[c].pc = "blocked"
    /\ Len(stream) > worker[c].pos
    /\ worker' = [worker EXCEPT ![c].pc = "send",
                                ![c].res = StreamOK(worker[c].pos + 1)]
    /\ UNCHANGED <<appvars, othervars, prevRead, sending, sentParked, stream,
                   created, active, lastICCID, callerpc, id, ctxDone,
                   preCancelled, ret, ncalls, subscribedAt, delivered,
                   disturbed>>

\* worker: the blocking XREAD fails: a connection error, with id "", or a
\* reply with the next entry that stream() cannot decode, with id "" or the
\* id of that entry.
WorkerFail(c, withID) ==
    /\ worker[c].pc = "blocked"
    /\ withID => Len(stream) > worker[c].pos
    /\ worker' = [worker EXCEPT
                    ![c].pc = "send",
                    ![c].res = StreamErr(IF withID THEN worker[c].pos + 1
                                                   ELSE EmptyID)]
    /\ UNCHANGED <<appvars, othervars, prevRead, sending, sentParked, stream,
                   created, active, lastICCID, callerpc, id, ctxDone,
                   preCancelled, ret, ncalls, subscribedAt, delivered,
                   disturbed>>

\* The cursor after a result was received from the worker.
NextCursor(last, arg, received) ==
    IF received.id # EmptyID THEN arg ELSE last

\* How the running call ends, for prevRead.
ReadOf(kind) ==
    IF kind \in {"cancel", "error"} /\ worker[ncalls].pc \in {"blocked", "send"}
      THEN [kind |-> kind, pos |-> worker[ncalls].pos]
      ELSE NoRead

\* select case received = <-streamFinished, and the rest of ReceiveICC.  The
\* worker's send on the unbuffered channel completes, the worker returns
\* and its deferred conn.Close() runs.
SelectReceived ==
    /\ callerpc = "select"
    /\ worker[ncalls].pc = "send"
    /\ LET received == worker[ncalls].res IN
         /\ lastICCID' = NextCursor(lastICCID, id, received)
         /\ IF received.err
              THEN /\ ret' = [kind |-> "error", data |-> NoData, id |-> EmptyID]
                   /\ delivered' = delivered
                   /\ disturbed' = TRUE
              ELSE /\ ret' = [kind |-> "payload", data |-> received.data,
                              id |-> received.id]
                   /\ delivered' = Append(delivered, [id |-> received.id,
                                                     data |-> received.data])
                   /\ disturbed' = disturbed
    /\ worker' = [worker EXCEPT ![ncalls].pc = "done"]
    /\ active' = active - 1
    /\ callerpc' = "idle"
    /\ prevRead' = ReadOf(IF worker[ncalls].res.err THEN "error"
                                                    ELSE "payload")
    /\ UNCHANGED <<appvars, othervars, sending, sentParked, stream, created,
                   id, ctxDone, preCancelled, ncalls, subscribedAt>>

\* Variant: the cancellation is only looked at once the worker has a result.
SelectCancelled_AfterRead ==
    /\ callerpc = "select"
    /\ ctxDone
    /\ worker[ncalls].pc = "send"
    /\ ret' = [kind |-> "cancel", data |-> NoData, id |-> EmptyID]
    /\ callerpc' = "idle"
    /\ disturbed' = TRUE
    /\ prevRead' = ReadOf("cancel")
    /\ UNCHANGED <<appvars, othervars, sending, sentParked, stream, created,
                   active, lastICCID, id, ctxDone, preCancelled, ncalls,
                   worker, subscribedAt, delivered>>

\* select case <-ctx.Done(): return nil, ctx.Err()
SelectCancelled ==
    /\ callerpc = "select"
    /\ ctxDone
    /\ ret' = [kind |-> "cancel", data |-> NoData, id |-> EmptyID]
    /\ callerpc' = "idle"
    /\ disturbed' = TRUE
    /\ prevRead' = ReadOf("cancel")
    /\ UNCHANGED <<appvars, othervars, sending, sentParked, stream, created,
                   active, lastICCID, id, ctxDone, preCancelled, ncalls,
                   worker, subscribedAt, delivered>>

NextICC ==
    \/ \E m \in Payloads : SendICCCall(m)
    \/ SendICCGet
    \/ \E ok \in BOOLEAN : SendICCXAdd(ok)
    \/ SendICCReturn
    \/ \E cancelled \in BOOLEAN : ReceiveICCStart(cancelled)
    \/ Cancel
    \/ \E c \in Calls : WorkerGet(c)
    \/ \E c \in Calls : WorkerXRead(c)
    \/ \E c \in Calls : WorkerReply(c)
    \/ \E c \in Calls, withID \in BOOLEAN : WorkerFail(c, withID)
    \/ SelectReceived
    \/ SelectCancelled

SpecICC == Init /\ [][NextICC]_vars

\* The Go scheduler runs every runnable goroutine: the reader's select takes
\* a ready case, the worker obtains a free connection, issues its XREAD and
\* gets the reply once an entry is there, a SendICC that was called goes on
\* once a connection is free.  Nothing obliges anybody to call SendICC or to
\* cancel, and redis need not fail.
FairICC ==
    /\ WF_vars(SelectReceived \/ SelectCancelled)
    /\ WF_vars(SendICCGet)
    /\ WF_vars(\E ok \in BOOLEAN : SendICCXAdd(ok))
    /\ WF_vars(SendICCReturn)
    /\ \A c \in Calls : /\ WF_vars(WorkerGet(c))
                        /\ WF_vars(WorkerXRead(c))
                        /\ WF_vars(WorkerReply(c))

FairSpecICC == SpecICC /\ FairICC

\* ------------------------------------------------------------- applause
\* Variant: ZADD adds an entry and keeps the older one of the member.
ZAdd_KeepsOld(set, score, member) ==
    set \cup {[member |-> member, score |-> score]}

\* ZADD key score member: the member gets the score, an older entry of the
\* member is replaced.
ZAdd(set, score, member) ==
    {e \in set : e.member # member} \cup {[member |-> member, score |-> score]}

\* Variant: the lower bound is exclusive.
ZCount_Exclusive(set, min) == Cardinality({e \in set : e.score > min})

\* ZCOUNT key min +inf
ZCount(set, min) == Cardinality({e \in set : e.score >= min})

\* ZREMRANGEBYSCORE key min max
ZRemRangeByScore(set, min, max) ==
    {e \in set : ~(min <= e.score /\ e.score <= max)}

\* SendApplause, ReceiveApplause and DeleteOldApplause begin alike:
\* conn := r.pool.Get() waits for a connection.  One applause call is under
\* way at a time.
ApplauseGet ==
    /\ appCall = "idle"
    /\ active < MaxActive
    /\ active' = active + 1
    /\ appCall' = "conn"
    /\ UNCHANGED <<othervars, applause, lastSend, removed, misswept, appLast,
                   stream, created, lastICCID, callerpc, id, ctxDone,
                   preCancelled, ret, ncalls, worker, sending, sentParked,
                   prevRead, subscribedAt, delivered, disturbed>>

\* ... and end alike: conn.Do has returned, the deferred conn.Close() runs
\* and the call returns what appLast holds.
ApplauseReturn ==
    /\ appCall = "reply"
    /\ active' = active - 1
    /\ appCall' = "idle"
    /\ UNCHANGED <<othervars, applause, lastSend, removed, misswept, appLast,
                   stream, created, lastICCID, callerpc, id, ctxDone,
                   preCancelled, ret, ncalls, worker, sending, sentParked,
                   prevRead, subscribedAt, delivered, disturbed>>

\* SendApplause(userID, time): the store serves conn.Do("ZADD", applause,
\* time, userID), or conn.Do fails (ok is FALSE) and the set stays.
SendApplauseCall(userID, time, ok) ==
    /\ appCall = "conn"
    /\ appCall' = "reply"
    /\ applause' = IF ok THEN ZAdd(applause, time, userID) ELSE applause
    /\ lastSend' = IF ok THEN [lastSend EXCEPT ![userID] = time] ELSE lastSend
    /\ removed' = IF ok THEN [removed EXCEPT ![userID] = FALSE] ELSE removed
    /\ appLast' = [op |-> "send", user |-> userID, arg |-> time, ok |-> ok,
                   res |-> 0, before |-> applause]
    /\ UNCHANGED <<iccvars, httpvars, waitvars, runvars, misswept>>

\* SendApplause called with a time of the caller's choice.
SendApplause(userID, time, ok) ==
    SendApplauseCall(userID, time, ok) /\ UNCHANGED prunevars

\* ReceiveApplause(since): the store serves ZCOUNT applause since +inf; the
\* call will return (n, nil), or (0, err).
ReceiveApplause(since, ok) ==
    /\ appCall = "conn"
    /\ appCall' = "reply"
    /\ appLast' = [op |-> "receive", user |-> 0, arg |-> since, ok |-> ok,
                   res |-> IF ok THEN ZCount(applause, since) ELSE 0,
                   before |-> applause]
    /\ UNCHANGED <<iccvars, othervars, applause, lastSend, removed, misswept>>

\* The scores DeleteOldApplause(olderThen) asks the store to remove.
DeleteMin == 0

\* Variant: the upper end of the range is one above the boundary.
DeleteMax_Above(olderThen) == Wrap(olderThen + 1)

DeleteMax(olderThen) == Wrap(olderThen - 1)

\* DeleteOldApplause(olderThen): the store serves ZREMRANGEBYSCORE applause
\* 0 olderThen-1, or conn.Do fails and the set stays.
DeleteOldApplauseCall(olderThen, ok) ==
    /\ appCall = "conn"
    /\ appCall' = "reply"
    /\ applause' = IF ok
                     THEN ZRemRangeByScore(applause, DeleteMin,
                                           DeleteMax(olderThen))
                     ELSE applause
    /\ removed' = [u \in Users |->
                     removed[u] \/ (\E e \in applause \ applause' :
                                       e.member = u)]
    /\ misswept' = (misswept
                      \/ (ok /\ applause' #
                                  {e \in applause : e.score >= olderThen}))
    /\ appLast' = [op |-> "delete", user |-> 0, arg |-> olderThen, ok |-> ok,
                   res |-> 0, before |-> applause]
    /\ UNCHANGED <<iccvars, httpvars, waitvars, runvars, lastSend>>

\* DeleteOldApplause called with a boundary of the caller's choice.
DeleteOldApplause(olderThen, ok) ==
    DeleteOldApplauseCall(olderThen, ok) /\ UNCHANGED prunevars

NextApplause ==
    \/ ApplauseGet
    \/ ApplauseReturn
    \/ \E u \in Users, t \in Int64, ok \in BOOLEAN : SendApplause(u, t, ok)
    \/ \E since \in Int64, ok \in BOOLEAN : ReceiveApplause(since, ok)
    \/ \E b \in Int64, ok \in BOOLEAN : DeleteOldApplause(b, ok)

\* The applause calls on a backend whose icc stream is empty and unused.
InitApplause == Init /\ stream = <<>>

SpecApplause == InitApplause /\ [][NextApplause]_vars


\* ------------------------------------------ applause service and pruning
\* The applause service stamps a Send with the current time and hands it to
\* SendApplause; its pruning loop computes now - window and hands that to
\* DeleteOldApplause.  The store serves one command at a time, nothing else
\* orders the two.
MaxWindow == 2      \* retention windows 0..MaxWindow
MaxNow == 2         \* the clock runs from 0 to MaxNow

\* The clock advances.
Tick ==
    /\ now < MaxNow /\ now < MaxInt
    /\ now' = now + 1
    /\ UNCHANGED <<iccvars, appvars, httpvars, waitvars, runvars, sweep,
                   stamp, newSent, lostNew>>

\* Send(userID, now): the time of the call is taken.
ServiceSendStamp(userID) ==
    /\ stamp[userID] = NoTime
    /\ stamp' = [stamp EXCEPT ![userID] = now]
    /\ UNCHANGED <<iccvars, appvars, httpvars, waitvars, runvars, now, sweep,
                   newSent, lostNew>>

\* Send(userID, now): SendApplause is served by the store.
ServiceSendExec(userID, ok) ==
    /\ stamp[userID] # NoTime
    /\ SendApplauseCall(userID, stamp[userID], ok)
    /\ stamp' = [stamp EXCEPT ![userID] = NoTime]
    /\ newSent' = IF ok
                    THEN {e \in newSent : e.member # userID} \cup
                         (IF sweep.pc = "cut"
                            THEN {[member |-> userID, score |-> stamp[userID]]}
                            ELSE {})
                    ELSE newSent
    /\ UNCHANGED <<now, sweep, lostNew>>

\* PruneOldData: a tick of the loop, the cutoff is computed.
PruneCutoff(window) ==
    /\ sweep.pc = "idle"
    /\ sweep' = [pc |-> "cut", cutoff |-> Wrap(now - window)]
    /\ newSent' = {}
    /\ lostNew' = {}
    /\ UNCHANGED <<iccvars, appvars, httpvars, waitvars, runvars, now, stamp>>

\* PruneOldData: DeleteOldApplause(cutoff) is served by the store; a failure
\* is logged and the loop waits for its next tick.
PruneDelete(ok) ==
    /\ sweep.pc = "cut"
    /\ DeleteOldApplauseCall(sweep.cutoff, ok)
    /\ sweep' = [sweep EXCEPT !.pc = "idle"]
    /\ lostNew' = newSent \cap (applause \ applause')
    /\ UNCHANGED <<now, stamp, newSent>>

NextPrune ==
    \/ ApplauseGet
    \/ ApplauseReturn
    \/ Tick
    \/ \E u \in Users : ServiceSendStamp(u)
    \/ \E u \in Users, ok \in BOOLEAN : ServiceSendExec(u, ok)
    \/ \E w \in 0..MaxWindow : PruneCutoff(w)
    \/ \E ok \in BOOLEAN : PruneDelete(ok)

SpecPrune == InitApplause /\ [][NextPrune]_vars

\* ------------------------------------------------- long-poll HTTP gateway
\* HandleReceive and HandleSend, per request: authenticate, dispatch to the
\* Receiver / Sender, await its result, respond.
InternalTexts == {"Test error", "xadd: connection refused"}
ClientKinds == {"invalid", "not-allowed", "not-found"}
GenericMessage == "Ups, something went wrong!"

\* What a Receiver or Sender returns: a payload (nil error), an internal
\* error, an error for the client, or the cancellation error.
Outcomes(handler) ==
    (IF handler = "receive"
       THEN [kind : {"ok"}, text : Payloads] \cup
            [kind : {"cancelled"}, text : {"context canceled"}]
       ELSE [kind : {"ok"}, text : {""}]) \cup
    [kind : {"internal"}, text : InternalTexts] \cup
    [kind : ClientKinds, text : {""}]

\* The message text of an error for the client.
ClientMessage(kind) ==
    CASE kind = "invalid" -> "The data is invalid"
      [] kind = "not-allowed" -> "Not allowed"
      [] kind = "not-found" -> "Not found"

\* The status HandleSend answers an error for the client with.
ClientStatus(kind) ==
    CASE kind = "invalid" -> 400
      [] kind = "not-allowed" -> 401
      [] kind = "not-found" -> 404

\* A response body is the sequence of the texts written into it.
Contains(body, text) == \E i \in 1..Len(body) : body[i] = text
ClientErrorBody(kind) == <<kind, ClientMessage(kind)>>
InternalErrorBody == <<"internal", GenericMessage>>

\* A request arrives: GET for HandleReceive, POST with a body for HandleSend.
\* uid is the identity the authenticator finds in the request.
HTTPRequest(handler, uid, data) ==
    /\ req.pc \in {"idle", "done"}
    /\ req' = [NoRequest EXCEPT !.pc = "auth", !.handler = handler,
                                !.uid = uid, !.data = data]
    /\ UNCHANGED <<iccvars, appvars, prunevars, waitvars, runvars>>

\* Variant: HandleSend lets the anonymous user through.
HTTPAuthenticate_NoGate ==
    /\ req.pc = "auth"
    /\ req' = [req EXCEPT !.pc = "dispatch"]
    /\ UNCHANGED <<iccvars, appvars, prunevars, waitvars, runvars>>

\* Authenticate; HandleSend answers the anonymous user 401 not-allowed.
HTTPAuthenticate ==
    /\ req.pc = "auth"
    /\ req' = IF req.handler = "send" /\ req.uid = Anonymous
                THEN [req EXCEPT !.pc = "done", !.status = 401,
                                 !.body = ClientErrorBody("not-allowed")]
                ELSE [req EXCEPT !.pc = "dispatch"]
    /\ UNCHANGED <<iccvars, appvars, prunevars, waitvars, runvars>>

\* receiver.Receive(ctx) or sender.Send(uid, body) is called; out is what
\* it is going to return.
HTTPDispatch(out) ==
    /\ req.pc = "dispatch"
    /\ out \in Outcomes(req.handler)
    /\ req' = [req EXCEPT !.pc = "await", !.called = TRUE, !.out = out,
                 !.calledUserID = IF req.handler = "send" THEN req.uid
                                                           ELSE Anonymous,
                 !.calledData = IF req.handler = "send" THEN req.data
                                                         ELSE ""]
    /\ UNCHANGED <<iccvars, appvars, prunevars, waitvars, runvars>>

\* Variant: every error of the Receiver is answered with the generic body.
ReceiveResponse_AllOpaque(out) ==
    CASE out.kind = "ok" -> [status |-> 200, body |-> <<out.text>>]
      [] out.kind = "cancelled" -> [status |-> 0, body |-> <<>>]
      [] OTHER -> [status |-> 200, body |-> InternalErrorBody]

\* The response HandleReceive writes for what the Receiver returned.
ReceiveResponse(out) ==
    CASE out.kind = "ok" -> [status |-> 200, body |-> <<out.text>>]
      [] out.kind = "cancelled" -> [status |-> 0, body |-> <<>>]
      [] out.kind = "internal" -> [status |-> 200, body |-> InternalErrorBody]
      [] OTHER -> [status |-> 200, body |-> ClientErrorBody(out.kind)]

\* Variant: the text of an internal error is written to the client.
SendResponse_Echo(out) ==
    CASE out.kind = "ok" -> [status |-> 200, body |-> <<>>]
      [] out.kind = "internal" ->
           [status |-> 500, body |-> <<"internal", out.text>>]
      [] OTHER -> [status |-> ClientStatus(out.kind),
                   body |-> ClientErrorBody(out.kind)]

\* The response HandleSend writes for what the Sender returned.
SendResponse(out) ==
    CASE out.kind = "ok" -> [status |-> 200, body |-> <<>>]
      [] out.kind = "internal" -> [status |-> 500, body |-> InternalErrorBody]
      [] OTHER -> [status |-> ClientStatus(out.kind),
                   body |-> ClientErrorBody(out.kind)]

\* The Receiver / Sender returned, the handler responds.
HTTPRespond ==
    /\ req.pc = "await"
    /\ LET resp == IF req.handler = "receive" THEN ReceiveResponse(req.out)
                                               ELSE SendResponse(req.out)
       IN req' = [req EXCEPT !.pc = "done", !.status = resp.status,
                             !.body = resp.body]
    /\ UNCHANGED <<iccvars, appvars, prunevars, waitvars, runvars>>

\* The bodies of the requests: a payload, or nothing.
Bodies == Payloads \cup {""}

NextHTTP ==
    \/ \E h \in {"receive", "send"}, u \in {Anonymous} \cup Users,
          p \in Bodies :
            HTTPRequest(h, u, IF h = "send" THEN p ELSE "")
    \/ HTTPAuthenticate
    \/ \E out \in Outcomes("receive") \cup Outcomes("send") : HTTPDispatch(out)
    \/ HTTPRespond

SpecHTTP == InitApplause /\ [][NextHTTP]_vars


\* ------------------------------------------------------------ Redis.Wait
MaxProbes == 4      \* PINGs of one Wait call that are counted

\* The store becomes reachable or unreachable.
StoreChange ==
    /\ storeUp' = ~storeUp
    /\ UNCHANGED <<iccvars, appvars, prunevars, httpvars, runvars, waiter,
                   waitCtxDone>>

\* The context of Wait is cancelled.
WaitCancel ==
    /\ ~waitCtxDone
    /\ waitCtxDone' = TRUE
    /\ UNCHANGED <<iccvars, appvars, prunevars, httpvars, runvars, waiter,
                   storeUp>>

\* Wait(ctx) is called.
WaitCall ==
    /\ waiter.pc = "idle"
    /\ waiter' = [waiter EXCEPT !.pc = "check"]
    /\ UNCHANGED <<iccvars, appvars, prunevars, httpvars, runvars, storeUp,
                   waitCtxDone>>

\* Variant: for { ... } without the test of ctx.Err().
WaitCheck_IgnoresCtx ==
    /\ waiter.pc = "check"
    /\ waiter' = [waiter EXCEPT !.pc = "get"]
    /\ UNCHANGED <<iccvars, appvars, prunevars, httpvars, runvars, storeUp,
                   waitCtxDone>>

\* for ctx.Err() == nil
WaitCheck ==
    /\ waiter.pc = "check"
    /\ waiter' = [waiter EXCEPT !.pc = IF waitCtxDone THEN "done" ELSE "get"]
    /\ UNCHANGED <<iccvars, appvars, prunevars, httpvars, runvars, storeUp,
                   waitCtxDone>>

\* conn := r.pool.Get()
WaitGet ==
    /\ waiter.pc = "get"
    /\ active < MaxActive
    /\ active' = active + 1
    /\ waiter' = [waiter EXCEPT !.pc = "ping"]
    /\ UNCHANGED <<appvars, prunevars, httpvars, runvars, storeUp, waitCtxDone,
                   stream, created, lastICCID, callerpc, id, ctxDone,
                   preCancelled, ret, ncalls, worker, sending,
                   sentParked, prevRead, subscribedAt, delivered, disturbed>>

\* _, err := conn.Do("PING")
WaitPing ==
    /\ waiter.pc = "ping"
    /\ waiter' = [pc |-> "close",
                  err |-> IF storeUp THEN "nil" ELSE "err",
                  probes |-> IF waiter.probes < MaxProbes
                               THEN waiter.probes + 1 ELSE waiter.probes]
    /\ UNCHANGED <<iccvars, appvars, prunevars, httpvars, runvars, storeUp,
                   waitCtxDone>>

\* conn.Close(); if err == nil { return }
WaitClose ==
    /\ waiter.pc = "close"
    /\ active' = active - 1
    /\ waiter' = [waiter EXCEPT
                    !.pc = IF waiter.err = "nil" THEN "done" ELSE "sleep"]
    /\ UNCHANGED <<appvars, prunevars, httpvars, runvars, storeUp, waitCtxDone,
                   stream, created, lastICCID, callerpc, id, ctxDone,
                   preCancelled, ret, ncalls, worker, sending,
                   sentParked, prevRead, subscribedAt, delivered, disturbed>>

\* log.Info(...); time.Sleep(500 * time.Millisecond)
WaitSleep ==
    /\ waiter.pc = "sleep"
    /\ waiter' = [waiter EXCEPT !.pc = "check"]
    /\ UNCHANGED <<iccvars, appvars, prunevars, httpvars, runvars, storeUp,
                   waitCtxDone>>

NextWait ==
    \/ StoreChange
    \/ WaitCancel
    \/ WaitCall
    \/ WaitCheck
    \/ WaitGet
    \/ WaitPing
    \/ WaitClose
    \/ WaitSleep

SpecWait == InitApplause /\ [][NextWait]_vars

\* Every step of a Wait call that can be taken is taken: the goroutine is
\* scheduled, PING answers or fails, the sleep ends.  Nothing obliges anybody
\* to call Wait, to cancel, or the store to come up.
FairWait ==
    /\ WF_vars(WaitCheck)
    /\ WF_vars(WaitGet)
    /\ WF_vars(WaitPing)
    /\ WF_vars(WaitClose)
    /\ WF_vars(WaitSleep)

FairSpecWait == SpecWait /\ FairWait


\* ------------------------------------------------------------------- Run
Messagings == {"redis", "fake", "kafka"}    \* values of env["MESSAGING"]
AuthMethods == {"ticket", "fake", "ldap"}   \* values of env["AUTH"]

\* The context of Run is cancelled.
RunCancel ==
    /\ ~runCtxDone
    /\ runCtxDone' = TRUE
    /\ run' = [run EXCEPT !.cancelledServing = (run.pc = "serving")]
    /\ UNCHANGED <<iccvars, appvars, prunevars, httpvars, waitvars, shut, srv>>

\* Run(ctx, environment, secret) is called: env := defaultEnv(environment).
RunCall(messaging, testConn, auth) ==
    /\ run.pc = "idle"
    /\ run' = [run EXCEPT !.pc = "bus", !.messaging = messaging,
                          !.testConn = testConn, !.auth = auth]
    /\ UNCHANGED <<iccvars, appvars, prunevars, httpvars, waitvars, shut,
                   runCtxDone, srv>>

\* buildMessageBus(env): nil, or the error of TestConn or of an unknown
\* service.
BuildMessageBusErr(messaging, testConn, connOk) ==
    CASE messaging = "redis" -> testConn /\ ~connOk
      [] messaging = "fake" -> FALSE
      [] OTHER -> TRUE

\* messageBus, err := buildMessageBus(env); if err != nil { return ... }
RunBuildMessageBus(connOk) ==
    /\ run.pc = "bus"
    /\ run' = IF BuildMessageBusErr(run.messaging, run.testConn, connOk)
                THEN [run EXCEPT !.pc = "returned",
                                 !.ret = "building message bus"]
                ELSE [run EXCEPT !.pc = "auth"]
    /\ UNCHANGED <<iccvars, appvars, prunevars, httpvars, waitvars, shut,
                   runCtxDone, srv>>

\* buildAuth(...): nil, or the error of the secrets, of auth.New or of an
\* unknown method.
BuildAuthErr(auth, authOk) ==
    CASE auth = "ticket" -> ~authOk
      [] auth = "fake" -> FALSE
      [] OTHER -> TRUE

\* auth, err := buildAuth(...); if err != nil { return ... }; buildDatastore,
\* redis.New, the services, the mux and srv := &http.Server{...} follow.
RunBuildAuth(authOk) ==
    /\ run.pc = "auth"
    /\ run' = IF BuildAuthErr(run.auth, authOk)
                THEN [run EXCEPT !.pc = "returned", !.ret = "building auth"]
                ELSE [run EXCEPT !.pc = "spawn"]
    /\ UNCHANGED <<iccvars, appvars, prunevars, httpvars, waitvars, shut,
                   runCtxDone, srv>>

\* wait := make(chan error); go func() { ... }()
RunSpawn ==
    /\ run.pc = "spawn"
    /\ run' = [run EXCEPT !.pc = "listen"]
    /\ shut' = [shut EXCEPT !.pc = "waitctx"]
    /\ UNCHANGED <<iccvars, appvars, prunevars, httpvars, waitvars,
                   runCtxDone, srv>>

\* srv.ListenAndServe() starts: ErrServerClosed if Shutdown was called
\* already, else the listener is bound or binding fails, and then
\* return fmt.Errorf("HTTP Server failed: %v", err).
RunListen(bindOk) ==
    /\ run.pc = "listen"
    /\ IF srv = "closed"
         THEN /\ run' = [run EXCEPT !.pc = "recv", !.las = "closed"]
              /\ srv' = srv
         ELSE IF bindOk
           THEN /\ run' = [run EXCEPT !.pc = "serving", !.served = TRUE]
                /\ srv' = "listening"
           ELSE /\ run' = [run EXCEPT !.pc = "returned", !.las = "other",
                                      !.ret = "HTTP Server failed"]
                /\ srv' = srv
    /\ UNCHANGED <<iccvars, appvars, prunevars, httpvars, waitvars, shut,
                   runCtxDone>>

\* Variant: Run returns nil when ListenAndServe gives ErrServerClosed.
RunServeClosed_NoWait ==
    /\ run.pc = "serving"
    /\ srv = "closed"
    /\ run' = [run EXCEPT !.pc = "returned", !.las = "closed",
                          !.ret = "nil"]
    /\ UNCHANGED <<iccvars, appvars, prunevars, httpvars, waitvars, shut,
                   runCtxDone, srv>>

\* srv.ListenAndServe() returns ErrServerClosed once Shutdown has closed the
\* listener; Run goes on to return <-wait.
RunServeClosed ==
    /\ run.pc = "serving"
    /\ srv = "closed"
    /\ run' = [run EXCEPT !.pc = "recv", !.las = "closed"]
    /\ UNCHANGED <<iccvars, appvars, prunevars, httpvars, waitvars, shut,
                   runCtxDone, srv>>

\* srv.ListenAndServe() of a serving server returns another error (Accept
\* fails for good while no Shutdown was called), and then
\* return fmt.Errorf("HTTP Server failed: %v", err).
RunServeFail ==
    /\ run.pc = "serving"
    /\ srv = "listening"
    /\ run' = [run EXCEPT !.pc = "returned", !.las = "other",
                          !.ret = "HTTP Server failed"]
    /\ UNCHANGED <<iccvars, appvars, prunevars, httpvars, waitvars, shut,
                   runCtxDone, srv>>

\* <-ctx.Done() in the goroutine; srv.Shutdown(context.Background()) is
\* invoked and closes the listener.
ShutdownInvoke ==
    /\ shut.pc = "waitctx"
    /\ runCtxDone
    /\ shut' = [shut EXCEPT !.pc = "shutdown"]
    /\ srv' = "closed"
    /\ UNCHANGED <<iccvars, appvars, prunevars, httpvars, waitvars, run,
                   runCtxDone>>

\* srv.Shutdown returns, with or without an error; the goroutine goes on to
\* wait <- fmt.Errorf("HTTP server shutdown: %w", err) or to wait <- nil.
ShutdownReturn(ok) ==
    /\ shut.pc = "shutdown"
    /\ shut' = [pc |-> "send", err |-> ~ok]
    /\ UNCHANGED <<iccvars, appvars, prunevars, httpvars, waitvars, run,
                   runCtxDone, srv>>

\* return <-wait meets the goroutine's send on the unbuffered channel; the
\* goroutine returns.
RunRecv ==
    /\ run.pc = "recv"
    /\ shut.pc = "send"
    /\ run' = [run EXCEPT !.pc = "returned",
                 !.ret = IF shut.err THEN "HTTP server shutdown" ELSE "nil"]
    /\ shut' = [shut EXCEPT !.pc = "done"]
    /\ UNCHANGED <<iccvars, appvars, prunevars, httpvars, waitvars,
                   runCtxDone, srv>>

NextRun ==
    \/ RunCancel
    \/ \E m \in Messagings, t \in BOOLEAN, a \in AuthMethods : RunCall(m, t, a)
    \/ \E ok \in BOOLEAN : RunBuildMessageBus(ok)
    \/ \E ok \in BOOLEAN : RunBuildAuth(ok)
    \/ RunSpawn
    \/ \E ok \in BOOLEAN : RunListen(ok)
    \/ RunServeClosed
    \/ RunServeFail
    \/ ShutdownInvoke
    \/ \E ok \in BOOLEAN : ShutdownReturn(ok)
    \/ RunRecv

SpecRun == InitApplause /\ [][NextRun]_vars

\* Run and its goroutine are scheduled, ListenAndServe returns once the
\* listener is closed, Shutdown returns.  Nothing obliges anybody to call Run
\* or to cancel its context, and Accept need not fail.
FairRun ==
    /\ WF_vars(\E ok \in BOOLEAN : RunBuildMessageBus(ok))
    /\ WF_vars(\E ok \in BOOLEAN : RunBuildAuth(ok))
    /\ WF_vars(RunSpawn)
    /\ WF_vars(\E ok \in BOOLEAN : RunListen(ok))
    /\ WF_vars(RunServeClosed)
    /\ WF_vars(ShutdownInvoke)
    /\ WF_vars(\E ok \in BOOLEAN : ShutdownReturn(ok))
    /\ WF_vars(RunRecv)

FairSpecRun == SpecRun /\ FairRun

Next == NextICC \/ NextApplause \/ NextPrune \/ NextHTTP \/ NextWait \/ NextRun

Spec == Init /\ [][Next]_vars

\* ------------------------------------------------------------ properties

\* The worker of call c was left behind: its call returned without taking
\* the worker's result.
Abandoned(c) ==
    /\ worker[c].pc \notin {"none", "done"}
    /\ c < ncalls \/ (c = ncalls /\ callerpc = "idle")

\* Where the worker of the running (or last) ReceiveICC call stands.
CurWorkerPC == IF ncalls = 0 THEN "none" ELSE worker[ncalls].pc

\* C1: as long as no ReceiveICC call failed or was cancelled, the k-th
\* successful ReceiveICC returns the k-th entry appended after the reader
\* subscribed: same order, nothing lost, nothing twice.
C1_InOrderNoLoss ==
    ~disturbed =>
        \A k \in 1..Len(delivered) :
            /\ delivered[k].id = subscribedAt + k
            /\ delivered[k].data = stream[subscribedAt + k]

\* C2: after a ReceiveICC call returned an entry, lastICCID is the id of
\* that entry.
C2_CursorIsReturnedID ==
    (callerpc = "idle" /\ ret.kind = "payload") => lastICCID = ret.id

\* C3: when the context is cancelled while ReceiveICC is parked and the
\* worker has no result, the call returns the cancellation error, unless
\* the store read finishes first; it does so even if nothing is ever
\* appended and the read stays blocked.
C3_CancelReturns ==
    (callerpc = "select" /\ ctxDone /\ ~preCancelled
        /\ CurWorkerPC # "send")
    ~> ((callerpc = "idle" /\ ret.kind = "cancel")
        \/ CurWorkerPC = "send")

\* C3 witness: the call returned the cancellation error while its store read
\* is still blocked and nothing was appended to the stream.
C3_Witness ==
    /\ callerpc = "idle" /\ ret.kind = "cancel" /\ ~preCancelled
    /\ CurWorkerPC = "blocked"
    /\ Len(stream) = created

\* C4: an abandoned worker whose store read completed gets rid of its
\* result, terminates and gives its connection back.
C4_AbandonedWorkerTerminates ==
    \A c \in Calls :
        (Abandoned(c) /\ worker[c].pc = "send") ~> (worker[c].pc = "done")

\* The worker of the running call has its XREAD served in this step, the
\* call before it having ended as kind after its own XREAD was served.
RetryReadServed(kind) ==
    /\ callerpc = "select"
    /\ prevRead.kind = kind
    /\ worker[ncalls].pc = "xread" /\ worker'[ncalls].pc = "blocked"

\* C5: a ReceiveICC call that returns because of the cancellation leaves
\* lastICCID as it was, and the XREAD of the call after it is issued from the
\* position the XREAD of the cancelled call was issued from.
C5_CancelKeepsPosition ==
    [][ /\ (callerpc = "select" /\ callerpc' = "idle" /\ ret'.kind = "cancel")
           => lastICCID' = lastICCID
        /\ RetryReadServed("cancel")
           => worker'[ncalls].pos = prevRead.pos ]_vars

\* C6: a ReceiveICC call invoked with a cancelled context never returns a
\* payload (it returns the cancellation error), however its worker and the
\* SendICC calls made after the invocation interleave.
C6_PreCancelledNoPayload ==
    (callerpc = "idle" /\ preCancelled) => ret.kind # "payload"

\* C7: no ReceiveICC call returns an entry that was in the stream when the
\* backend was created.
C7_NoBacklog ==
    \A k \in 1..Len(delivered) : delivered[k].id > created

\* C7 witness: the stream had a backlog and a call returned an entry.
C7_Witness ==
    /\ created > 0 /\ callerpc = "idle" /\ ret.kind = "payload"
    /\ lastICCID # EmptyID

\* The users whose last successful SendApplause was at or after since.
SentSince(since) ==
    {u \in Users : lastSend[u] # NoTime /\ lastSend[u] >= since}

\* C8: the store holds at most one entry per user and its score is the time
\* of the user's last SendApplause; the entry is there as long as nothing
\* deleted it, and ReceiveApplause counts no user twice.
C8_OneEntryPerUser ==
    /\ \A u \in Users :
         LET es == {e \in applause : e.member = u} IN
           /\ Cardinality(es) <= 1
           /\ \A e \in es : e.score = lastSend[u]
           /\ (lastSend[u] # NoTime /\ ~removed[u]) => Cardinality(es) = 1
    /\ (appLast.op = "receive" /\ appLast.ok)
         => appLast.res <= Cardinality(SentSince(appLast.arg))

\* C8 witness: SendApplause(u, t2) was served while the store held the entry
\* of an earlier SendApplause(u, t) with t < t2.
C8_Witness ==
    /\ appLast.op = "send" /\ appLast.ok
    /\ \E e \in appLast.before :
         e.member = appLast.user /\ e.score < appLast.arg

\* C9 as claimed: ReceiveApplause(since) is the number of users whose last
\* SendApplause was at or after since, after any SendApplause,
\* ReceiveApplause and DeleteOldApplause calls.  Stated for the runs in which
\* every DeleteOldApplause(b) so far removed exactly the entries older than
\* b, so that a violation does not rest on what C10 is about.
C9_CountIsSentSince ==
    (appLast.op = "receive" /\ appLast.ok /\ ~misswept)
        => appLast.res = Cardinality(SentSince(appLast.arg))

\* C9 amended: ReceiveApplause(since) is the number of users whose last
\* SendApplause was at or after since and whose entry no DeleteOldApplause
\* has removed since then.
C9_CountIsLiveSentSince ==
    (appLast.op = "receive" /\ appLast.ok)
        => appLast.res =
             Cardinality({u \in SentSince(appLast.arg) : ~removed[u]})

\* C9 witness: ReceiveApplause counted a user while the entry of another
\* user, sent at or after since, had been deleted.
C9_Witness ==
    /\ appLast.op = "receive" /\ appLast.ok /\ appLast.res = 1
    /\ \E u \in SentSince(appLast.arg) : removed[u]
    /\ ~misswept

\* C10: after DeleteOldApplause(b) every entry with a time >= b that was
\* stored before is still stored, and no entry with a time < b that was
\* stored before is left.
C10_DeleteExactlyOlder ==
    (appLast.op = "delete" /\ appLast.ok)
        => \A e \in appLast.before :
             /\ e.score >= appLast.arg => e \in applause
             /\ e.score < appLast.arg => e \notin applause

\* C11 as claimed: the sweep deletes no entry whose SendApplause was served
\* after the sweep computed its cutoff.
C11_SweepSparesNewEntries == lostNew = {}

\* C11 amended: an entry whose SendApplause was served after the sweep
\* computed its cutoff is not deleted by that sweep if its time is at or
\* after the cutoff; the sweep deletes it only if it carries a time before
\* the cutoff, that of a Send stamped earlier and served late.
C11_SweepSparesEntriesFromCutoff ==
    \A e \in lostNew : e.score < sweep.cutoff

\* C11 witness: the sweep deleted an entry and left one that was written,
\* with a time at or after the cutoff, after the cutoff was computed.
C11_Witness ==
    /\ sweep.pc = "idle" /\ appLast.op = "delete" /\ appLast.ok
    /\ applause # appLast.before
    /\ \E e \in newSent : e \in applause /\ e.score >= sweep.cutoff

\* C12: HandleSend calls the Sender exactly for a request of a user that is
\* not anonymous, with that user's id; the anonymous request is answered
\* with 401 and a body of the kind not-allowed, and the Sender is not called.
C12_SendGate ==
    req.handler = "send" =>
        /\ req.called => (req.uid # Anonymous /\ req.calledUserID = req.uid)
        /\ req.pc \in {"await", "done"} => (req.called <=> req.uid # Anonymous)
        /\ (req.pc = "done" /\ req.uid = Anonymous) =>
              /\ req.status = 401
              /\ Contains(req.body, "not-allowed")
              /\ ~req.called

\* C12 witness: an anonymous send request has been answered.
C12_Witness ==
    /\ req.handler = "send" /\ req.pc = "done" /\ req.uid = Anonymous
    /\ req.status = 401

\* C13: for an internal error of the Sender or Receiver the body never holds
\* the text of the error; HandleSend answers 500, HandleReceive 200 with the
\* generic message.
C13_InternalErrorOpaque ==
    (req.pc = "done" /\ req.out.kind = "internal") =>
        /\ ~Contains(req.body, req.out.text)
        /\ req.handler = "send" => req.status = 500
        /\ req.handler = "receive" =>
              (req.status = 200 /\ Contains(req.body, GenericMessage))

\* C13 witness: HandleSend has answered an internal error of the Sender.
C13_Witness ==
    /\ req.pc = "done" /\ req.handler = "send" /\ req.out.kind = "internal"
    /\ req.status = 500

\* C14: HandleReceive always calls the Receiver and, unless the request was
\* cancelled, answers 200: with the payload as the body, or with a body that
\* holds the message of the error for the client.
C14_ReceiveResponds ==
    req.handler = "receive" =>
        /\ req.pc \in {"await", "done"} => req.called
        /\ (req.pc = "done" /\ req.out.kind # "cancelled") => req.status = 200
        /\ (req.pc = "done" /\ req.out.kind = "ok") =>
              req.body = <<req.out.text>>
        /\ (req.pc = "done" /\ req.out.kind \in ClientKinds) =>
              Contains(req.body, ClientMessage(req.out.kind))

\* C14 witness: HandleReceive has answered an error for the client.
C14_Witness ==
    /\ req.pc = "done" /\ req.handler = "receive"
    /\ req.out.kind \in ClientKinds /\ req.status = 200

\* The worker of the running (or last) ReceiveICC call.
CurWorker == IF ncalls = 0 THEN NoWorker ELSE worker[ncalls]

\* The parked call is over with a payload, or it was cancelled or its store
\* read failed in the meantime.
PayloadOrGivenUp ==
    \/ callerpc = "idle" /\ ret.kind = "payload"
    \/ ctxDone
    \/ CurWorker.res.err

\* C15 as claimed: a SendICC that is called and returns nil while a
\* ReceiveICC call is parked (invoked, not cancelled, not returned) makes that
\* call return a payload, unless the call is cancelled or its store read
\* fails afterwards.
C15_SendWakesParkedCall == (sentParked # "no") ~> PayloadOrGivenUp

\* C15 amended: an entry that the store appends while the worker of the
\* parked call is blocked in its XREAD (the XADD of a SendICC is served after
\* the XREAD) makes that call return a payload, unless the call is cancelled
\* or its store read fails afterwards.
C15_AppendWakesBlockedRead ==
    (callerpc = "select" /\ CurWorker.pc = "blocked"
        /\ Len(stream) > CurWorker.pos)
    ~> PayloadOrGivenUp

\* C15 witness: a SendICC was called and returned nil while the call was
\* parked, and the call returned a payload without being cancelled.
C15_Witness ==
    /\ sentParked = "parked" /\ callerpc = "idle" /\ ret.kind = "payload"
    /\ ~ctxDone

\* C18: a ReceiveICC call whose store read failed returns an error and no
\* payload and, the failed read having given no id, leaves lastICCID as it
\* was; the XREAD of the call after it is issued from the position the
\* failed XREAD was issued from.
C18_ErrorKeepsPosition ==
    [][ /\ (callerpc = "select" /\ callerpc' = "idle" /\ ret'.kind = "error")
           => /\ ret'.data = NoData /\ delivered' = delivered
              /\ worker[ncalls].res.id = EmptyID => lastICCID' = lastICCID
        /\ RetryReadServed("error")
           => worker'[ncalls].pos = prevRead.pos ]_vars

\* C19: a SendICC call that waits for a connection of the pool gets one and
\* completes, whatever ReceiveICC calls were cancelled or are parked.
C19_SendGetsConnection == (sending.pc # "idle") ~> (sending.pc = "idle")

\* C16: Wait returns only when its last PING succeeded or its context is
\* cancelled; a Wait call returns once its context is cancelled, whatever the
\* store does, and returns once the store is reachable unless the store
\* becomes unreachable again before the probe.
C16_WaitReturns ==
    /\ [](waiter.pc = "done" => (waiter.err = "nil" \/ waitCtxDone))
    /\ (waiter.pc # "idle" /\ waitCtxDone) ~> (waiter.pc = "done")
    /\ (waiter.pc # "idle" /\ storeUp) ~> (waiter.pc = "done" \/ ~storeUp)

\* C16 witness: Wait returned on cancellation after failed probes, the store
\* being unreachable.
C16_Witness ==
    /\ waiter.pc = "done" /\ waitCtxDone /\ waiter.err = "err"
    /\ waiter.probes >= 2 /\ ~storeUp

\* Shutdown of the server has been invoked.
ShutdownInvoked == shut.pc \in {"shutdown", "send", "done"}

\* C17 as claimed: once the context of Run is cancelled while the server is
\* serving, Shutdown is invoked; Run then returns only after Shutdown has
\* returned, with nil if Shutdown gave no error and with the wrapped shutdown
\* error otherwise.
C17_RunReturnsAfterShutdown ==
    /\ (run.pc = "serving" /\ runCtxDone) ~> ShutdownInvoked
    /\ []((run.pc = "returned" /\ run.cancelledServing)
            => /\ shut.pc = "done"
               /\ run.ret = IF shut.err THEN "HTTP server shutdown"
                                        ELSE "nil")

\* C17 amended: once the context of Run is cancelled while the server is
\* serving, Shutdown is invoked; if ListenAndServe returns ErrServerClosed,
\* Run returns only after Shutdown has returned, with nil or the wrapped
\* shutdown error; if ListenAndServe returns another error, Run returns
\* "HTTP Server failed" without waiting for Shutdown.
C17_RunReturnsAfterShutdownOrFailure ==
    /\ (run.pc = "serving" /\ runCtxDone) ~> ShutdownInvoked
    /\ []((run.pc = "returned" /\ run.cancelledServing)
            => IF run.las = "closed"
                 THEN /\ shut.pc = "done"
                      /\ run.ret = IF shut.err THEN "HTTP server shutdown"
                                               ELSE "nil"
                 ELSE run.las = "other" /\ run.ret = "HTTP Server failed")

\* C17 witness: the context was cancelled while the server was serving and
\* Run returned the shutdown error.
C17_Witness ==
    /\ run.pc = "returned" /\ run.cancelledServing /\ runCtxDone
    /\ run.las = "closed"
    /\ run.ret = "HTTP server shutdown" /\ shut.pc = "done" /\ shut.err

\* C20: once the context of Run is cancelled the shutdown goroutine
\* terminates, also when ListenAndServe failed and Run has returned.
C20_ShutdownGoroutineTerminates ==
    (shut.pc # "none" /\ runCtxDone) ~> (shut.pc = "done")

TypeOK ==
    /\ stream \in BoundedSeqs(Payloads, MaxStream)
    /\ active \in 0..MaxActive
    /\ callerpc \in {"idle", "select"}
    /\ sending.pc \in {"idle", "get", "xadd", "reply"}
    /\ sending.msg \in Payloads \cup {NoData}
    /\ sending.err \in {"none", "nil", "xadd"}
    /\ sending.during \in 0..MaxCalls
    /\ sentParked \in {"no", "parked"}
    /\ appCall \in {"idle", "conn", "reply"}
    /\ prevRead.kind \in {"none", "cancel", "error"}
    /\ prevRead.pos \in 0..MaxStream
    /\ waiter.pc \in {"idle", "check", "get", "ping", "close", "sleep", "done"}
    /\ waiter.probes \in 0..MaxProbes
    /\ run.pc \in {"idle", "bus", "auth", "spawn", "listen", "serving", "recv",
                   "returned"}
    /\ shut.pc \in {"none", "waitctx", "shutdown", "send", "done"}
    /\ srv \in {"new", "listening", "closed"}
    /\ \A e \in applause : e.member \in Users /\ e.score \in Int64
====
